---- MODULE Spec2Model ----
(***************************************************************************)
(* Order / payment / fulfillment reconciliation core of govershop-be.      *)
(*                                                                         *)
(* Tables (orders, payments, users.balance, deposits, webhook_logs) are    *)
(* the shared state; every HTTP handler runs on a worker goroutine and is  *)
(* split at its database statements, so that the interleavings the Go      *)
(* runtime allows between two handlers are behaviours of the model.        *)
(* Money is kept in hundredths (NUMERIC(15,2)).                            *)
(***************************************************************************)
EXTENDS Integers, Sequences, FiniteSets, Bags, TLC

VARIABLES
    orders,       \* orders table: ref_id -> row
    payments,     \* payments table: sequence of rows, in created_at order
    balance,      \* users.balance per member
    deposits,     \* deposits table (ledger), sequence of rows
    rowLock,      \* holder of the SELECT ... FOR UPDATE lock per users row
    webhookLogs,  \* webhook_logs table, sequence of rows
    pc,           \* position of each request goroutine in its handler
    loc,          \* local variables of each request goroutine
    tasks,        \* detached processTopup goroutines
    nextRef,      \* next ref_id to be generated
    nreq,         \* number of HTTP requests accepted so far
    spawned,      \* history: processTopup goroutines started per order
    dfCalls,      \* history: provider calls made by processTopup per order
    paidToProc,   \* history: paid -> processing transitions per order
    overlap,      \* history: orders with two overlapping Pakasir deliveries
    beaten,       \* history: a rival delivery started fulfillment meanwhile
    lastDelivery, \* history: payload and verdict of the last Pakasir delivery
    txResult,     \* history: outcome of each goroutine's last balance transaction
    provResult,   \* history: last result the provider reported per order
    now,          \* last value of time.Now().UnixMilli() a handler has read
    refRejects,   \* history: ref_ids whose INSERT the unique constraint refused
    auditLogs,    \* admin_audit_logs table, sequence of rows
    totpEnabled,  \* admin_security.totp_enabled
    retryCalls,   \* history: provider calls made by ManualTopup
    sweepSeen,    \* history: rows an expiry sweep found old enough, as it saw them
    unlogged,     \* history: deliveries that wrote without a webhook_logs row
    rejected,     \* history: <<log id, reason>> of deliveries refused or failed
    visitors,     \* RateLimiter.visitors: client IP -> visitor object, 0 if none
    vheap,        \* the visitor objects ever allocated, by address
    granted       \* history: allow calls answered true per IP since its last reset

vars == <<orders, payments, balance, deposits, rowLock, webhookLogs, pc, loc,
          tasks, nextRef, nreq, spawned, dfCalls, paidToProc, overlap, beaten,
          lastDelivery, txResult, provResult, now, refRejects, auditLogs, totpEnabled,
          retryCalls, sweepSeen, unlogged, rejected, visitors, vheap,
          granted>>

dbVars   == <<orders, payments, balance, deposits, rowLock, webhookLogs>>
histVars == <<spawned, dfCalls, paidToProc, overlap, beaten, lastDelivery>>
ledgerHist == <<txResult, provResult>>
adminVars == <<auditLogs, totpEnabled, retryCalls>>
opsHist  == <<sweepSeen, unlogged, rejected>>
limiterVars == <<visitors, vheap, granted>>
auxVars  == <<now, refRejects, adminVars, opsHist, limiterVars>>

----------------------------------------------------------------------------
(* Bounds of the model                                                     *)

MaxRequests == 4
MaxLedgerRequests == 4
MaxOrders == 1
MaxHours == 1
MaxMinutes == 4
rlLimit == 2

(* Program constants                                                       *)

Cents == 100
FlatAdminFee == 10
MinTopup == 20000
maxTopupsPerHour == 20
HourMs == 3600000
WindowMs == 60000

Workers == {"w1", "w2"}
Users   == {"m1"}
IPs     == {"ip1", "ip2"}

ProductPrices == {999000, 999050, 1000000}
MemberPrices  == {1500000, 2000000}
TopupAmounts  == {1999900, 2000000}
WebhookAmounts == {999900, 1000000, 1000100}

OrderStatusPending        == "pending"
OrderStatusWaitingPayment == "waiting_payment"
OrderStatusPaid           == "paid"
OrderStatusProcessing     == "processing"
OrderStatusSuccess        == "success"
OrderStatusFailed         == "failed"
OrderStatusExpired        == "expired"
OrderStatusCancelled      == "cancelled"
OrderStatusRefunded       == "refunded"

PaymentStatusPending   == "pending"
PaymentStatusCompleted == "completed"
PaymentStatusExpired   == "expired"
PaymentStatusCancelled == "cancelled"

TerminalStatuses == {OrderStatusSuccess, OrderStatusFailed, OrderStatusCancelled,
                     OrderStatusExpired, OrderStatusRefunded}

ProviderStatuses == {"Sukses", "Gagal", "Pending"}

(* resp.Data.Message of a provider answer, err.Error() of a failed call     *)
ProviderMessage(st) ==
    CASE st = "Sukses" -> "Transaksi Sukses"
      [] st = "Gagal"  -> "Transaksi Gagal"
      [] OTHER         -> "Transaksi Pending"

TransportError == "failed to send request"

----------------------------------------------------------------------------
(* Pure helpers                                                            *)

MaxOf(S) == CHOOSE x \in S : \A y \in S : y <= x

Count(f, o) == IF o \in DOMAIN f THEN f[o] ELSE 0
Bump(f, o)  == IF o \in DOMAIN f THEN [f EXCEPT ![o] = @ + 1] ELSE f @@ (o :> 1)

Put(f, o, v)   == IF o \in DOMAIN f THEN [f EXCEPT ![o] = v] ELSE f @@ (o :> v)

NoDelivery == [order |-> 0, amount |-> 0, status |-> "none", project |-> "none",
               verdict |-> "none", http |-> 0, ost |-> "none"]

IdleLoc == [order |-> 0, ost |-> "none", pay |-> 0, pst |-> "none",
            method |-> "none", overdue |-> FALSE, amount |-> 0,
            ref |-> <<>>, verified |-> FALSE, seen |-> 0,
            ip |-> "none", visitor |-> 0,
            user |-> "none", cur |-> 0, kind |-> "none", by |-> "none",
            ret |-> "idle", retErr |-> "idle", log |-> 0]

(* fmt.Sprintf("GVS-%d-%s", time.Now().UnixMilli(), generateRandomString(6)) *)
(* and its siblings; ADMIN- and VAL- ids carry no random suffix            *)
RefID(prefix, ms, suffix) == <<prefix, ms, suffix>>

(* orders.ref_id is UNIQUE NOT NULL: an INSERT of a ref_id that a row      *)
(* already holds fails                                                     *)
RefTaken_unconstrained(ref) == FALSE
RefTaken(ref) == \E o \in DOMAIN orders : orders[o].refId = ref

(* time.Now() read by a handler: not earlier than the last value read      *)
ClockReads == {now, now + 1}
RandomStrings == {"A", "B"}

NewOrder_pending(ref, price, status, member, source) ==
    [refId |-> ref, sellingPrice |-> price, status |-> OrderStatusPending,
     memberId |-> member,
     memberPrice |-> IF member = "none" THEN 0 ELSE price,
     digiflazzStatus |-> "", serialNumber |-> "", digiflazzMsg |-> "",
     completedAt |-> FALSE, orderSource |-> source]
NewOrder(ref, price, status, member, source) ==
    [refId |-> ref, sellingPrice |-> price, status |-> status,
     memberId |-> member,
     memberPrice |-> IF member = "none" THEN 0 ELSE price,
     digiflazzStatus |-> "", serialNumber |-> "", digiflazzMsg |-> "",
     completedAt |-> FALSE, orderSource |-> source]

----------------------------------------------------------------------------
(* Balance ledger: UserRepository.TopupBalance / DeductBalance             *)

LockFree_nolock(u) == TRUE
LockFree(u) == rowLock[u] = "none"

Insufficient_strict(cur, amount) == cur <= amount
Insufficient_nocheck(cur, amount) == FALSE
Insufficient(cur, amount) == cur < amount

(* deferred tx.Rollback after a failed statement: the UPDATE is undone     *)
RolledBackBalance_partial(kind, cur, amount) ==
    IF kind = "debit" THEN cur - amount ELSE cur + amount
RolledBackBalance(kind, cur, amount) == cur

NewBalance_alwaysadd(kind, cur, amount) == cur + amount
NewBalance(kind, cur, amount) ==
    IF kind = "debit" THEN cur - amount ELSE cur + amount

(* TopupBalance leaves reference_id NULL (0) and names the order only in   *)
(* the description text; DeductBalance stores the order ref_id.            *)
DepositRow(u, amount, kind, ref, by) ==
    [user |-> u, amount |-> amount, type |-> kind,
     referenceId |-> IF kind = "credit" THEN 0 ELSE ref,
     description |-> ref, createdBy |-> by]

SignedAmount(d) == IF d.type = "debit" THEN 0 - d.amount ELSE d.amount

RECURSIVE LedgerSum(_, _)
LedgerSum(ds, u) ==
    IF ds = <<>> THEN 0
    ELSE (IF Head(ds).user = u THEN SignedAmount(Head(ds)) ELSE 0)
         + LedgerSum(Tail(ds), u)

(* tx.QueryRow("SELECT balance FROM users WHERE id = $1 FOR UPDATE")       *)
BeginForUpdate(w) ==
    /\ pc[w] = "tx_begin"
    /\ LockFree(loc[w].user)
    /\ rowLock' = [rowLock EXCEPT ![loc[w].user] = w]
    /\ loc' = [loc EXCEPT ![w].cur = balance[loc[w].user]]
    /\ pc' = [pc EXCEPT ![w] = "tx_locked"]
    /\ UNCHANGED <<orders, payments, balance, deposits, webhookLogs, tasks,
                   nextRef, nreq, histVars,
                   ledgerHist>>
    /\ UNCHANGED auxVars

(* DeductBalance: "insufficient balance" return, deferred tx.Rollback      *)
RollbackInsufficient(w) ==
    /\ pc[w] = "tx_locked"
    /\ loc[w].kind = "debit"
    /\ Insufficient(loc[w].cur, loc[w].amount)
    /\ rowLock' = [rowLock EXCEPT ![loc[w].user] = "none"]
    /\ pc' = [pc EXCEPT ![w] = loc[w].retErr]
    /\ loc' = [loc EXCEPT ![w] = IF loc[w].retErr = "idle" THEN IdleLoc ELSE @]
    /\ txResult' = [txResult EXCEPT ![w] = "insufficient balance"]
    /\ UNCHANGED <<orders, payments, balance, deposits, webhookLogs, tasks,
                   nextRef, nreq, histVars, provResult>>
    /\ UNCHANGED auxVars

(* UPDATE, INSERT or Commit returns an error: the deferred tx.Rollback     *)
(* undoes what the transaction wrote and releases the row lock             *)
RollbackOnError(w) ==
    /\ pc[w] = "tx_locked"
    /\ ~(loc[w].kind = "debit" /\ Insufficient(loc[w].cur, loc[w].amount))
    /\ balance' = [balance EXCEPT ![loc[w].user] =
                       RolledBackBalance(loc[w].kind, loc[w].cur, loc[w].amount)]
    /\ rowLock' = [rowLock EXCEPT ![loc[w].user] = "none"]
    /\ pc' = [pc EXCEPT ![w] = loc[w].retErr]
    /\ loc' = [loc EXCEPT ![w] = IF loc[w].retErr = "idle" THEN IdleLoc ELSE @]
    /\ txResult' = [txResult EXCEPT ![w] = "error"]
    /\ UNCHANGED <<orders, payments, deposits, webhookLogs, tasks, nextRef,
                   nreq, histVars, provResult>>
    /\ UNCHANGED auxVars

(* UPDATE users SET balance; INSERT INTO deposits; tx.Commit               *)
CommitTx(w) ==
    /\ pc[w] = "tx_locked"
    /\ ~(loc[w].kind = "debit" /\ Insufficient(loc[w].cur, loc[w].amount))
    /\ balance' = [balance EXCEPT ![loc[w].user] =
                       NewBalance(loc[w].kind, loc[w].cur, loc[w].amount)]
    /\ deposits' = Append(deposits,
                       DepositRow(loc[w].user, loc[w].amount, loc[w].kind,
                                  loc[w].order, loc[w].by))
    /\ rowLock' = [rowLock EXCEPT ![loc[w].user] = "none"]
    /\ pc' = [pc EXCEPT ![w] = loc[w].ret]
    /\ loc' = [loc EXCEPT ![w] = IF loc[w].ret = "idle" THEN IdleLoc ELSE @]
    /\ txResult' = [txResult EXCEPT ![w] = "ok"]
    /\ UNCHANGED <<orders, payments, webhookLogs, tasks, nextRef, nreq,
                   histVars, provResult>>
    /\ UNCHANGED auxVars

----------------------------------------------------------------------------
(* MemberHandler.TopupMember                                               *)

TopupMember(w, u, amount) ==
    /\ pc[w] = "idle"
    /\ nreq < MaxLedgerRequests
    /\ nreq' = nreq + 1
    /\ IF amount < MinTopup * Cents
         THEN UNCHANGED <<pc, loc>>
         ELSE /\ pc' = [pc EXCEPT ![w] = "tx_begin"]
              /\ loc' = [loc EXCEPT ![w] =
                           [IdleLoc EXCEPT !.user = u, !.amount = amount,
                                           !.kind = "credit", !.by = "admin"]]
    /\ UNCHANGED <<dbVars, tasks, nextRef, histVars,
                   ledgerHist>>
    /\ UNCHANGED auxVars

(* MemberHandler.CreateOrder: DeductBalance, orderRepo.Create, provider    *)
MemberCreateOrder(w, u, price, t, rnd) ==
    /\ pc[w] = "idle"
    /\ nreq < MaxLedgerRequests
    /\ t \in ClockReads
    /\ nreq' = nreq + 1
    /\ nextRef' = nextRef + 1
    /\ now' = t
    /\ pc' = [pc EXCEPT ![w] = "tx_begin"]
    /\ loc' = [loc EXCEPT ![w] =
                 [IdleLoc EXCEPT !.user = u, !.amount = price, !.kind = "debit",
                                 !.by = "system", !.order = nextRef,
                                 !.ref = RefID("INV", t, rnd),
                                 !.ret = "mo_create"]]
    /\ UNCHANGED <<dbVars, tasks, histVars,
                   ledgerHist>>
    /\ UNCHANGED <<refRejects, adminVars, opsHist, limiterVars>>

Refund(w) ==
    [loc[w] EXCEPT !.kind = "credit", !.by = "SYSTEM", !.ret = "idle",
                   !.retErr = "idle"]

MemberOrderInsert(w) ==
    /\ pc[w] = "mo_create"
    /\ \E ok \in BOOLEAN :
         IF ok /\ ~RefTaken(loc[w].ref)
           THEN /\ orders' = orders @@ (loc[w].order :>
                      NewOrder(loc[w].ref, loc[w].amount, OrderStatusProcessing,
                               loc[w].user, "member"))
                /\ pc' = [pc EXCEPT ![w] = "mo_call"]
                /\ UNCHANGED <<loc, refRejects>>
           ELSE /\ pc' = [pc EXCEPT ![w] = "tx_begin"]
                /\ loc' = [loc EXCEPT ![w] = Refund(w)]
                /\ refRejects' = IF RefTaken(loc[w].ref)
                                   THEN refRejects \cup {loc[w].ref}
                                   ELSE refRejects
                /\ UNCHANGED orders
    /\ UNCHANGED <<payments, balance, deposits, rowLock, webhookLogs, tasks,
                   nextRef, nreq, histVars,
                   ledgerHist>>
    /\ UNCHANGED <<now, adminVars, opsHist, limiterVars>>

(* digiflazzSvc.CreateTransaction; only err is looked at                   *)
MemberOrderCall(w) ==
    /\ pc[w] = "mo_call"
    /\ \E r \in ProviderStatuses \cup {"error"} :
         /\ provResult' = Put(provResult, loc[w].order, r)
         /\ IF r = "error"
              THEN /\ orders' = [orders EXCEPT ![loc[w].order].status =
                                     OrderStatusFailed]
                   /\ pc' = [pc EXCEPT ![w] = "tx_begin"]
                   /\ loc' = [loc EXCEPT ![w] = Refund(w)]
              ELSE /\ pc' = [pc EXCEPT ![w] = "idle"]
                   /\ loc' = [loc EXCEPT ![w] = IdleLoc]
                   /\ UNCHANGED orders
    /\ UNCHANGED <<payments, balance, deposits, rowLock, webhookLogs, tasks,
                   nextRef, nreq, histVars, txResult>>
    /\ UNCHANGED auxVars

----------------------------------------------------------------------------
(* WebhookHandler.HandleDigiflazzWebhook                                   *)

MapDigiflazzStatus(st) ==
    CASE st = "Sukses" -> OrderStatusSuccess
      [] st = "Gagal"  -> OrderStatusFailed
      [] OTHER         -> OrderStatusProcessing

UpdateDigiflazzResponse_noserial(row, status, dfStatus, sn, message) ==
    [row EXCEPT !.status = status, !.digiflazzStatus = dfStatus,
                !.digiflazzMsg = message,
                !.completedAt = IF status \in {OrderStatusSuccess,
                                               OrderStatusFailed}
                                THEN TRUE ELSE @]
UpdateDigiflazzResponse(row, status, dfStatus, sn, message) ==
    [row EXCEPT !.status = status, !.digiflazzStatus = dfStatus,
                !.serialNumber = sn, !.digiflazzMsg = message,
                !.completedAt = IF status \in {OrderStatusSuccess,
                                               OrderStatusFailed}
                                THEN TRUE ELSE @]

(* a body json.Unmarshal refuses                                           *)
Malformed == "<malformed>"

(* outcome of the database statements of one request                       *)
DbOutcomes == {"ok", "log insert fails", "update fails"}

DigiflazzVerdict(o, st) ==
    CASE st = Malformed         -> "parse error"
      [] o \notin DOMAIN orders -> "order not found"
      [] OTHER                  -> "accepted"

(* errorMsg handed to WebhookLogRepository.MarkProcessed                   *)
ReceiptError_blank(v) == ""
ReceiptError(v) == IF v \in {"accepted", "ignored"} THEN "" ELSE v

(* The IP whitelist is commented out and no signature is looked at: the   *)
(* handler carries on whether or not the request is authentic.  The error *)
(* of webhookRepo.Create is dropped: without a log row the handler still   *)
(* goes on.  webhook_logs.payload is JSONB, so the insert of a body that   *)
(* is not JSON fails.                                                      *)
HandleDigiflazzWebhook(o, st, authentic, db, limit) ==
    /\ nreq < limit
    /\ db \in DbOutcomes
    /\ st = Malformed => db = "log insert fails"
    /\ nreq' = nreq + 1
    /\ LET v == DigiflazzVerdict(o, st)
           done == v = "accepted" /\ db # "update fails"
       IN
       /\ orders' = IF done
                      THEN [orders EXCEPT ![o] =
                              UpdateDigiflazzResponse(@, MapDigiflazzStatus(st),
                                  st, IF st = "Sukses" THEN "ABC123" ELSE "",
                                  ProviderMessage(st))]
                      ELSE orders
       /\ webhookLogs' =
            IF db = "log insert fails" THEN webhookLogs
            ELSE Append(webhookLogs,
                        [source |-> "digiflazz", processed |-> TRUE,
                         error |-> IF v = "accepted" /\ ~done
                                     THEN "failed to update digiflazz response"
                                     ELSE ReceiptError(v),
                         authentic |-> authentic])
       /\ provResult' = IF done THEN Put(provResult, o, st) ELSE provResult
       /\ unlogged' = IF done /\ db = "log insert fails"
                        THEN unlogged \cup {<<"digiflazz", o>>} ELSE unlogged
       /\ rejected' =
            IF done \/ db = "log insert fails" THEN rejected
            ELSE rejected \cup
                   {<<Len(webhookLogs) + 1,
                      IF v = "accepted"
                        THEN "failed to update digiflazz response" ELSE v>>}
    /\ UNCHANGED <<payments, balance, deposits, rowLock, pc, loc, tasks,
                   nextRef, histVars, txResult>>
    /\ UNCHANGED <<now, refRejects, adminVars, sweepSeen,
                   limiterVars>>

----------------------------------------------------------------------------
(* MemberHandler.ValidateMemberAccount                                     *)

ValidationFees == {1500000}

(* DeductBalance of the validation fee                                     *)
ValidateMemberAccount(w, u, fee, t, rnd) ==
    /\ pc[w] = "idle"
    /\ nreq < MaxLedgerRequests
    /\ t \in ClockReads
    /\ nreq' = nreq + 1
    /\ nextRef' = nextRef + 1
    /\ now' = t
    /\ pc' = [pc EXCEPT ![w] = "tx_begin"]
    /\ loc' = [loc EXCEPT ![w] =
                 [IdleLoc EXCEPT !.user = u, !.amount = fee, !.kind = "debit",
                                 !.by = "system", !.order = nextRef,
                                 !.ref = RefID("MVAL", t, rnd),
                                 !.ret = "mv_create"]]
    /\ UNCHANGED <<dbVars, tasks, histVars, ledgerHist>>
    /\ UNCHANGED <<refRejects, adminVars, opsHist, limiterVars>>

(* orderRepo.Create in status processing; refund when the insert fails     *)
MemberValidateInsert(w) ==
    /\ pc[w] = "mv_create"
    /\ \E ok \in BOOLEAN :
         IF ok /\ ~RefTaken(loc[w].ref)
           THEN /\ orders' = orders @@ (loc[w].order :>
                      NewOrder(loc[w].ref, loc[w].amount, OrderStatusProcessing,
                               loc[w].user, "member"))
                /\ pc' = [pc EXCEPT ![w] = "mv_call"]
                /\ UNCHANGED <<loc, refRejects>>
           ELSE /\ pc' = [pc EXCEPT ![w] = "tx_begin"]
                /\ loc' = [loc EXCEPT ![w] = Refund(w)]
                /\ refRejects' = IF RefTaken(loc[w].ref)
                                   THEN refRejects \cup {loc[w].ref}
                                   ELSE refRejects
                /\ UNCHANGED orders
    /\ UNCHANGED <<payments, balance, deposits, rowLock, webhookLogs, tasks,
                   nextRef, nreq, histVars, ledgerHist>>
    /\ UNCHANGED <<now, adminVars, opsHist, limiterVars>>

(* provider call with its retries, UpdateStatus, refund when failed        *)
MemberValidateCall(w) ==
    /\ pc[w] = "mv_call"
    /\ \E r \in ProviderStatuses \cup {"error"} :
         /\ provResult' = Put(provResult, loc[w].order, r)
         /\ orders' = [orders EXCEPT ![loc[w].order].status =
                          IF r = "error" THEN OrderStatusFailed
                          ELSE MapDigiflazzStatus(r)]
         /\ IF r \in {"error", "Gagal"}
              THEN /\ pc' = [pc EXCEPT ![w] = "tx_begin"]
                   /\ loc' = [loc EXCEPT ![w] = Refund(w)]
              ELSE /\ pc' = [pc EXCEPT ![w] = "idle"]
                   /\ loc' = [loc EXCEPT ![w] = IdleLoc]
    /\ UNCHANGED <<payments, balance, deposits, rowLock, webhookLogs, tasks,
                   nextRef, nreq, histVars, txResult>>
    /\ UNCHANGED auxVars

----------------------------------------------------------------------------
(* TOTPHandler.CustomTopup                                                 *)

CustomTopupPrices == {999000}

(* password, TOTP and rate-limit checks, then orderRepo.CreateWithSource   *)
CustomTopup(w, price, t) ==
    /\ pc[w] = "idle"
    /\ nreq < MaxLedgerRequests
    /\ t \in ClockReads
    /\ nreq' = nreq + 1
    /\ \E allowed \in BOOLEAN :
         IF allowed
           THEN /\ now' = t
                /\ IF RefTaken(RefID("ADMIN", t, ""))
                     THEN /\ refRejects' =
                                refRejects \cup {RefID("ADMIN", t, "")}
                          /\ UNCHANGED <<orders, nextRef, pc, loc>>
                     ELSE /\ UNCHANGED refRejects
                          /\ orders' = orders @@ (nextRef :>
                                NewOrder(RefID("ADMIN", t, ""), price,
                                         OrderStatusProcessing, "none",
                                         "admin_cash"))
                          /\ nextRef' = nextRef + 1
                          /\ pc' = [pc EXCEPT ![w] = "ct_call"]
                          /\ loc' = [loc EXCEPT ![w] =
                                       [IdleLoc EXCEPT !.order = nextRef]]
           ELSE UNCHANGED <<orders, nextRef, pc, loc, now, refRejects>>
    /\ UNCHANGED <<payments, balance, deposits, rowLock, webhookLogs, tasks,
                   histVars, ledgerHist>>
    /\ UNCHANGED <<adminVars, opsHist, limiterVars>>

(* digiflazzSvc.CreateTransaction and UpdateDigiflazzResponse              *)
CustomTopupCall(w) ==
    /\ pc[w] = "ct_call"
    /\ \E r \in ProviderStatuses \cup {"error"} :
         /\ provResult' = Put(provResult, loc[w].order, r)
         /\ orders' = [orders EXCEPT ![loc[w].order] =
                         IF r = "error"
                           THEN UpdateDigiflazzResponse(@, OrderStatusFailed, "", "",
                                                        TransportError)
                           ELSE UpdateDigiflazzResponse(@, MapDigiflazzStatus(r), r,
                                    IF r = "Sukses" THEN "ABC123" ELSE "",
                                    ProviderMessage(r))]
    /\ pc' = [pc EXCEPT ![w] = "idle"]
    /\ loc' = [loc EXCEPT ![w] = IdleLoc]
    /\ UNCHANGED <<payments, balance, deposits, rowLock, webhookLogs, tasks,
                   nextRef, nreq, histVars, txResult>>
    /\ UNCHANGED auxVars

----------------------------------------------------------------------------
(* ValidationHandler.ValidateAccount                                       *)

(* The provider is asked first; a transport error logs nothing.  The log   *)
(* order (selling price 0) is inserted directly in the status of the       *)
(* validation result.                                                      *)
ValidateAccount(r, t) ==
    /\ nreq < MaxLedgerRequests
    /\ t \in ClockReads
    /\ nreq' = nreq + 1
    /\ now' = t
    /\ refRejects' = IF r # "error" /\ RefTaken(RefID("VAL", t, ""))
                       THEN refRejects \cup {RefID("VAL", t, "")}
                       ELSE refRejects
    /\ IF r = "error" \/ RefTaken(RefID("VAL", t, ""))
         THEN UNCHANGED <<orders, nextRef, provResult>>
         ELSE /\ orders' = orders @@ (nextRef :>
                    [NewOrder(RefID("VAL", t, ""), 0, MapDigiflazzStatus(r),
                              "none", "website")
                        EXCEPT !.digiflazzStatus = r,
                               !.digiflazzMsg = ProviderMessage(r),
                               !.serialNumber =
                                   IF r = "Sukses" THEN "ABC123" ELSE ""])
              /\ nextRef' = nextRef + 1
              /\ provResult' = Put(provResult, nextRef, r)
    /\ UNCHANGED <<payments, balance, deposits, rowLock, webhookLogs, pc, loc,
                   tasks, histVars, txResult>>
    /\ UNCHANGED <<adminVars, opsHist, limiterVars>>

----------------------------------------------------------------------------
(* Repositories                                                            *)

PaymentMethods == {"qris", "bni_va"}

PaymentsOf(o) == {i \in 1..Len(payments) : payments[i].orderId = o}

(* PaymentRepository.GetByOrderID: ORDER BY created_at DESC LIMIT 1        *)
GetByOrderID(o) == IF PaymentsOf(o) = {} THEN 0 ELSE MaxOf(PaymentsOf(o))

UpdateStatusByOrderID(ps, o, st) ==
    [i \in 1..Len(ps) |->
        IF ps[i].orderId = o THEN [ps[i] EXCEPT !.status = st] ELSE ps[i]]

UpdateStatus(os, o, st) == [os EXCEPT ![o].status = st]

----------------------------------------------------------------------------
(* OrderHandler                                                            *)

CreateOrder(base, t, rnd) ==
    /\ nreq < MaxRequests
    /\ nextRef <= MaxOrders
    /\ t \in ClockReads
    /\ nreq' = nreq + 1
    /\ now' = t
    /\ IF RefTaken(RefID("GVS", t, rnd))
         THEN /\ refRejects' = refRejects \cup {RefID("GVS", t, rnd)}
              /\ UNCHANGED <<orders, nextRef>>
         ELSE /\ UNCHANGED refRejects
              /\ nextRef' = nextRef + 1
              /\ orders' = orders @@ (nextRef :>
                    NewOrder(RefID("GVS", t, rnd),
                             base + FlatAdminFee * Cents, OrderStatusPending,
                             "none", "website"))
    /\ UNCHANGED <<payments, balance, deposits, rowLock, webhookLogs, pc, loc,
                   tasks, histVars,
                   ledgerHist>>
    /\ UNCHANGED <<adminVars, opsHist, limiterVars>>

(* InitiatePayment: GetByID, status check, gateway call                    *)
InitiatePayment(w, o, method) ==
    /\ pc[w] = "idle"
    /\ nreq < MaxRequests
    /\ o \in DOMAIN orders
    /\ nreq' = nreq + 1
    /\ \E gatewayOk \in BOOLEAN :
         IF orders[o].status = OrderStatusPending /\ gatewayOk
           THEN /\ pc' = [pc EXCEPT ![w] = "ip_write"]
                /\ loc' = [loc EXCEPT ![w] =
                             [IdleLoc EXCEPT !.order = o, !.method = method,
                                             !.ost = orders[o].status]]
           ELSE UNCHANGED <<pc, loc>>
    /\ UNCHANGED <<dbVars, tasks, nextRef, histVars,
                   ledgerHist>>
    /\ UNCHANGED auxVars

(* InitiatePayment: paymentRepo.Create, orderRepo.UpdateStatus             *)
InitiatePaymentWrite(w) ==
    /\ pc[w] = "ip_write"
    /\ payments' = Append(payments,
                     [orderId |-> loc[w].order, method |-> loc[w].method,
                      amount |-> orders[loc[w].order].sellingPrice,
                      status |-> PaymentStatusPending])
    /\ orders' = UpdateStatus(orders, loc[w].order, OrderStatusWaitingPayment)
    /\ pc' = [pc EXCEPT ![w] = "idle"]
    /\ loc' = [loc EXCEPT ![w] = IdleLoc]
    /\ UNCHANGED <<balance, deposits, rowLock, webhookLogs, tasks, nextRef,
                   nreq, histVars,
                   ledgerHist>>
    /\ UNCHANGED auxVars

(* CancelOrder: GetByID and the status check                               *)
CancelOrder(w, o) ==
    /\ pc[w] = "idle"
    /\ nreq < MaxRequests
    /\ o \in DOMAIN orders
    /\ nreq' = nreq + 1
    /\ IF orders[o].status \in {OrderStatusPending, OrderStatusWaitingPayment}
         THEN /\ pc' = [pc EXCEPT ![w] = "co_write"]
              /\ loc' = [loc EXCEPT ![w] =
                           [IdleLoc EXCEPT !.order = o, !.ost = orders[o].status]]
         ELSE UNCHANGED <<pc, loc>>
    /\ UNCHANGED <<dbVars, tasks, nextRef, histVars,
                   ledgerHist>>
    /\ UNCHANGED auxVars

(* CancelOrder: payment and order writes                                   *)
CancelOrderWrite(w) ==
    /\ pc[w] = "co_write"
    /\ payments' = IF loc[w].ost = OrderStatusWaitingPayment
                     THEN UpdateStatusByOrderID(payments, loc[w].order,
                                                PaymentStatusCancelled)
                     ELSE payments
    /\ orders' = UpdateStatus(orders, loc[w].order, OrderStatusCancelled)
    /\ pc' = [pc EXCEPT ![w] = "idle"]
    /\ loc' = [loc EXCEPT ![w] = IdleLoc]
    /\ UNCHANGED <<balance, deposits, rowLock, webhookLogs, tasks, nextRef,
                   nreq, histVars,
                   ledgerHist>>
    /\ UNCHANGED auxVars

(* GetOrderStatus: reads and qrispwSvc.CheckPaymentStatus                  *)
GetOrderStatus(w, o) ==
    /\ pc[w] = "idle"
    /\ nreq < MaxRequests
    /\ o \in DOMAIN orders
    /\ nreq' = nreq + 1
    /\ LET p == GetByOrderID(o) IN
       \E qris \in {"paid", "expired", "pending", "error"} :
         IF /\ p # 0
            /\ payments[p].status = PaymentStatusPending
            /\ payments[p].method = "qris"
            /\ qris \in {"paid", "expired"}
           THEN /\ pc' = [pc EXCEPT ![w] =
                            IF qris = "paid" THEN "gs_paid" ELSE "gs_expired"]
                /\ loc' = [loc EXCEPT ![w] =
                             [IdleLoc EXCEPT !.order = o, !.ost = orders[o].status]]
           ELSE UNCHANGED <<pc, loc>>
    /\ UNCHANGED <<dbVars, tasks, nextRef, histVars,
                   ledgerHist>>
    /\ UNCHANGED auxVars

(* GetOrderStatus, qris "paid": payment completed, order paid              *)
GetOrderStatusPaid(w) ==
    /\ pc[w] = "gs_paid"
    /\ payments' = UpdateStatusByOrderID(payments, loc[w].order,
                                         PaymentStatusCompleted)
    /\ orders' = UpdateStatus(orders, loc[w].order, OrderStatusPaid)
    /\ pc' = [pc EXCEPT ![w] = "idle"]
    /\ loc' = [loc EXCEPT ![w] = IdleLoc]
    /\ UNCHANGED <<balance, deposits, rowLock, webhookLogs, tasks, nextRef,
                   nreq, histVars,
                   ledgerHist>>
    /\ UNCHANGED auxVars

(* GetOrderStatus, qris "expired": payment expired                         *)
GetOrderStatusExpired(w) ==
    /\ pc[w] = "gs_expired"
    /\ payments' = UpdateStatusByOrderID(payments, loc[w].order,
                                         PaymentStatusExpired)
    /\ pc' = [pc EXCEPT ![w] = "idle"]
    /\ loc' = [loc EXCEPT ![w] = IdleLoc]
    /\ UNCHANGED <<orders, balance, deposits, rowLock, webhookLogs, tasks,
                   nextRef, nreq, histVars,
                   ledgerHist>>
    /\ UNCHANGED auxVars

----------------------------------------------------------------------------
(* AdminHandler.CheckOrderStatus                                           *)

CheckOrderStatus(w, o) ==
    /\ pc[w] = "idle"
    /\ nreq < MaxRequests
    /\ o \in DOMAIN orders
    /\ nreq' = nreq + 1
    /\ \E overdue \in BOOLEAN, pakasir \in {"expired", "pending", "error"} :
         IF /\ GetByOrderID(o) # 0
            /\ orders[o].status \notin {OrderStatusSuccess, OrderStatusFailed,
                                        OrderStatusCancelled}
            /\ (overdue \/ pakasir = "expired")
           THEN /\ pc' = [pc EXCEPT ![w] = "cs_expire"]
                /\ loc' = [loc EXCEPT ![w] =
                             [IdleLoc EXCEPT !.order = o, !.ost = orders[o].status]]
           ELSE UNCHANGED <<pc, loc>>
    /\ UNCHANGED <<dbVars, tasks, nextRef, histVars,
                   ledgerHist>>
    /\ UNCHANGED auxVars

CheckOrderStatusExpire(w) ==
    /\ pc[w] = "cs_expire"
    /\ payments' = UpdateStatusByOrderID(payments, loc[w].order,
                                         PaymentStatusExpired)
    /\ orders' = UpdateStatus(orders, loc[w].order, OrderStatusExpired)
    /\ pc' = [pc EXCEPT ![w] = "idle"]
    /\ loc' = [loc EXCEPT ![w] = IdleLoc]
    /\ UNCHANGED <<balance, deposits, rowLock, webhookLogs, tasks, nextRef,
                   nreq, histVars,
                   ledgerHist>>
    /\ UNCHANGED auxVars

----------------------------------------------------------------------------
(* WebhookHandler.HandlePakasirWebhook                                     *)

(* expectedAmount := float64(int(order.SellingPrice + 0.5))                *)
ExpectedAmount_truncated(price) == (price \div Cents) * Cents
ExpectedAmount(price) == ((price + Cents \div 2) \div Cents) * Cents

AmountMismatch_unchecked(amount, price) == FALSE
AmountMismatch(amount, price) == amount # ExpectedAmount(price)

PkInFlight(w) == pc[w] \in {"pk_payment", "pk_order"}

PakasirVerdict(d) ==
    CASE d.status = Malformed              -> "parse error"
      [] d.project # "ok"                  -> "invalid project"
      [] d.status # "completed"            -> "ignored"
      [] d.order \notin DOMAIN orders      -> "order not found"
      [] AmountMismatch(d.amount, orders[d.order].sellingPrice)
                                           -> "amount mismatch"
      [] OTHER                             -> "accepted"

(* http.Error / w.WriteHeader of each exit of the handler                  *)
PakasirHttpStatus(v) ==
    CASE v = "parse error"     -> 400
      [] v = "invalid project" -> 400
      [] v = "order not found" -> 404
      [] v = "amount mismatch" -> 400
      [] OTHER                 -> 200

PakasirPayloads ==
    {[order |-> o, amount |-> a, status |-> "completed", project |-> "ok"] :
        o \in DOMAIN orders, a \in WebhookAmounts}
    \cup {[order |-> o, amount |-> 1000000, status |-> "expired", project |-> "ok"] :
        o \in DOMAIN orders}
    \cup {[order |-> o, amount |-> 1000000, status |-> "completed",
           project |-> "other"] : o \in DOMAIN orders}
    \cup {[order |-> 0, amount |-> 1000000, status |-> "completed",
           project |-> "ok"]}

MalformedPayloads ==
    {[order |-> 0, amount |-> 0, status |-> Malformed, project |-> "none"]}

(* body read, webhook log, parse, project / status / order / amount checks; *)
(* logID, _ := h.webhookRepo.Create(...) drops the error of the insert     *)
HandlePakasirWebhook(w, d, logged) ==
    /\ d.status = Malformed => ~logged
    /\ pc[w] = "idle"
    /\ nreq < MaxRequests
    /\ nreq' = nreq + 1
    /\ LET v == PakasirVerdict(d) IN
       /\ lastDelivery' = [order |-> d.order, amount |-> d.amount,
                           status |-> d.status, project |-> d.project,
                           verdict |-> v, http |-> PakasirHttpStatus(v),
                           ost |-> IF d.order \in DOMAIN orders
                                     THEN orders[d.order].status ELSE "none"]
       /\ IF v = "accepted"
            THEN /\ webhookLogs' =
                      IF logged
                        THEN Append(webhookLogs,
                               [source |-> "pakasir", processed |-> FALSE,
                                error |-> "", authentic |-> TRUE])
                        ELSE webhookLogs
                 /\ pc' = [pc EXCEPT ![w] = "pk_payment"]
                 /\ loc' = [loc EXCEPT ![w] =
                              [IdleLoc EXCEPT !.order = d.order,
                                              !.amount = d.amount,
                                              !.ost = orders[d.order].status,
                                              !.log = IF logged
                                                        THEN Len(webhookLogs) + 1
                                                        ELSE 0]]
                 /\ overlap' = IF \E x \in Workers \ {w} :
                                     PkInFlight(x) /\ loc[x].order = d.order
                                 THEN overlap \cup {d.order} ELSE overlap
            ELSE /\ webhookLogs' =
                      IF logged
                        THEN Append(webhookLogs,
                               [source |-> "pakasir", processed |-> TRUE,
                                error |-> ReceiptError(v),
                                authentic |-> d.project = "ok"])
                        ELSE webhookLogs
                 /\ UNCHANGED <<pc, loc, overlap>>
    /\ UNCHANGED <<orders, payments, balance, deposits, rowLock, tasks, nextRef,
                   spawned, dfCalls, paidToProc, beaten, ledgerHist>>
    /\ rejected' =
         IF logged /\ PakasirVerdict(d) \notin {"accepted", "ignored"}
           THEN rejected \cup {<<Len(webhookLogs) + 1, PakasirVerdict(d)>>}
           ELSE rejected
    /\ UNCHANGED <<now, refRejects, adminVars, sweepSeen, unlogged,
                   limiterVars>>

(* paymentRepo.UpdateStatusByOrderID(order.ID, completed)                  *)
PakasirUpdatePayment(w) ==
    /\ pc[w] = "pk_payment"
    /\ payments' = UpdateStatusByOrderID(payments, loc[w].order,
                                         PaymentStatusCompleted)
    /\ pc' = [pc EXCEPT ![w] = "pk_order"]
    /\ unlogged' = IF loc[w].log = 0 /\ payments' # payments
                     THEN unlogged \cup {<<"pakasir", loc[w].order>>}
                     ELSE unlogged
    /\ UNCHANGED <<orders, balance, deposits, rowLock, webhookLogs, loc, tasks,
                   nextRef, nreq, histVars,
                   ledgerHist>>
    /\ UNCHANGED <<now, refRejects, adminVars, sweepSeen, rejected,
                   limiterVars>>

(* orderRepo.UpdateStatus(order.ID, paid); go h.processTopup(order);       *)
(* webhookRepo.MarkProcessed.  ok: the UPDATE of the order succeeded; when *)
(* it did not, the log row takes the error and no goroutine is started.    *)
(* MarkProcessed with logID 0 matches no row.                              *)
PakasirMarkPaid(w, ok) ==
    /\ pc[w] = "pk_order"
    /\ orders' = IF ok THEN UpdateStatus(orders, loc[w].order, OrderStatusPaid)
                  ELSE orders
    /\ tasks' = IF ok
                  THEN tasks (+) SetToBag({[order |-> loc[w].order,
                                            at |-> "start"]})
                  ELSE tasks
    /\ spawned' = IF ok THEN Bump(spawned, loc[w].order) ELSE spawned
    /\ webhookLogs' =
         IF loc[w].log = 0 THEN webhookLogs
         ELSE [webhookLogs EXCEPT
                 ![loc[w].log].processed = TRUE,
                 ![loc[w].log].error =
                     IF ok THEN "" ELSE "failed to update order status"]
    /\ beaten' = [x \in Workers |->
                    IF x = w THEN FALSE
                    ELSE IF /\ ok
                            /\ PkInFlight(x)
                            /\ loc[x].order = loc[w].order
                            /\ loc[x].ost = OrderStatusWaitingPayment
                            /\ loc[w].ost = OrderStatusWaitingPayment
                         THEN TRUE ELSE beaten[x]]
    /\ unlogged' = IF loc[w].log = 0 /\ ok
                     THEN unlogged \cup {<<"pakasir", loc[w].order>>}
                     ELSE unlogged
    /\ pc' = [pc EXCEPT ![w] = "idle"]
    /\ loc' = [loc EXCEPT ![w] = IdleLoc]
    /\ UNCHANGED <<payments, balance, deposits, rowLock, nextRef, nreq,
                   dfCalls, paidToProc, overlap, lastDelivery, ledgerHist>>
    /\ rejected' = IF loc[w].log # 0 /\ ~ok
                     THEN rejected \cup
                            {<<loc[w].log, "failed to update order status">>}
                     ELSE rejected
    /\ UNCHANGED <<now, refRejects, adminVars, sweepSeen,
                   limiterVars>>

----------------------------------------------------------------------------
(* WebhookHandler.processTopup, the detached goroutine                     *)

(* orderRepo.UpdateStatus(order.ID, processing)                            *)
ProcessTopupStart(t) ==
    /\ BagIn(t, tasks)
    /\ t.at = "start"
    /\ orders' = UpdateStatus(orders, t.order, OrderStatusProcessing)
    /\ paidToProc' = IF orders[t.order].status = OrderStatusPaid
                       THEN Bump(paidToProc, t.order) ELSE paidToProc
    /\ tasks' = (tasks (-) SetToBag({t})) (+) SetToBag({[t EXCEPT !.at = "call"]})
    /\ UNCHANGED <<payments, balance, deposits, rowLock, webhookLogs, pc, loc,
                   nextRef, nreq, spawned, dfCalls, overlap, beaten,
                   lastDelivery, ledgerHist>>
    /\ UNCHANGED auxVars

(* digiflazzSvc.CreateTransaction and orderRepo.UpdateDigiflazzResponse    *)
ProcessTopupCall(t) ==
    /\ BagIn(t, tasks)
    /\ t.at = "call"
    /\ dfCalls' = Bump(dfCalls, t.order)
    /\ \E r \in ProviderStatuses \cup {"error"} :
         /\ provResult' = Put(provResult, t.order, r)
         /\ orders' = [orders EXCEPT ![t.order] =
                      IF r = "error"
                        THEN UpdateDigiflazzResponse(@, OrderStatusFailed, "", "",
                                                     TransportError)
                        ELSE UpdateDigiflazzResponse(@, MapDigiflazzStatus(r), r,
                                 IF r = "Sukses" THEN "ABC123" ELSE "",
                                 ProviderMessage(r))]
    /\ tasks' = tasks (-) SetToBag({t})
    /\ UNCHANGED <<payments, balance, deposits, rowLock, webhookLogs, pc, loc,
                   nextRef, nreq, spawned, paidToProc, overlap, beaten,
                   lastDelivery, txResult>>
    /\ UNCHANGED auxVars

----------------------------------------------------------------------------
(* TOTPHandler: EnableTOTP, DisableTOTP, ManualTopup                       *)

TOTPCodes == {"", "000000", "valid"}

(* totp.Validate(req.Code, security.TOTPSecret)                            *)
Validate(code) == code = "valid"

AuditRow(action, o, success, reason) ==
    [action |-> action, order |-> o, success |-> success, reason |-> reason,
     at |-> now]

(* SELECT COUNT FROM admin_audit_logs WHERE action = 'manual_topup'        *)
(* AND success = true AND created_at > NOW() - INTERVAL '1 hour'           *)
CountRecentManualTopups(logs, t) ==
    Cardinality({i \in 1..Len(logs) :
                    /\ logs[i].action = "manual_topup"
                    /\ logs[i].success
                    /\ logs[i].at > t - HourMs})

EnableTOTP(code) ==
    /\ nreq < MaxRequests
    /\ code # ""
    /\ nreq' = nreq + 1
    /\ totpEnabled' = (Validate(code) \/ totpEnabled)
    /\ auditLogs' = Append(auditLogs,
                        AuditRow("totp_enable", 0, Validate(code),
                                 IF Validate(code) THEN "" ELSE "Invalid code"))
    /\ UNCHANGED <<dbVars, pc, loc, tasks, nextRef, histVars, ledgerHist, now,
                   refRejects, retryCalls, opsHist, limiterVars>>

DisableTOTP(code) ==
    /\ nreq < MaxRequests
    /\ totpEnabled
    /\ nreq' = nreq + 1
    /\ totpEnabled' = ~Validate(code)
    /\ auditLogs' = IF Validate(code)
                      THEN Append(auditLogs, AuditRow("totp_disable", 0, TRUE, ""))
                      ELSE auditLogs
    /\ UNCHANGED <<dbVars, pc, loc, tasks, nextRef, histVars, ledgerHist, now,
                   refRejects, retryCalls, opsHist, limiterVars>>

(* the checks of ManualTopup, in the order the handler makes them          *)
ManualTopupVerdict(o, code) ==
    CASE totpEnabled /\ code \in {""}           -> "totp required"
      [] totpEnabled /\ ~Validate(code)          -> "invalid_totp"
      [] CountRecentManualTopups(auditLogs, now) >= maxTopupsPerHour
                                                 -> "rate_limit"
      [] o \notin DOMAIN orders                  -> "not found"
      [] orders[o].status # OrderStatusFailed    -> "invalid_status"
      [] GetByOrderID(o) = 0                     -> "payment_not_completed"
      [] payments[GetByOrderID(o)].status # PaymentStatusCompleted
                                                 -> "payment_not_completed"
      [] OTHER                                   -> "call"

(* TOTP check, rate limit check, order and payment checks                  *)
ManualTopup(w, o, code) ==
    /\ pc[w] = "idle"
    /\ nreq < MaxRequests
    /\ nreq' = nreq + 1
    /\ LET v == ManualTopupVerdict(o, code) IN
         /\ auditLogs' = IF v \in {"call", "totp required", "not found"}
                           THEN auditLogs
                           ELSE Append(auditLogs,
                                       AuditRow("manual_topup", o, FALSE, v))
         /\ IF v = "call"
              THEN /\ pc' = [pc EXCEPT ![w] = "mt_call"]
                   /\ loc' = [loc EXCEPT ![w] =
                                [IdleLoc EXCEPT !.order = o,
                                    !.verified = totpEnabled /\ Validate(code),
                                    !.seen = Len(retryCalls)]]
              ELSE UNCHANGED <<pc, loc>>
    /\ UNCHANGED <<dbVars, tasks, nextRef, histVars, ledgerHist, now,
                   refRejects, totpEnabled, retryCalls, opsHist, limiterVars>>

(* digiflazzSvc.CreateTransaction under a new RETRY- id, the order update  *)
(* and the audit row of the outcome                                        *)
ManualTopupCall(w) ==
    /\ pc[w] = "mt_call"
    /\ LET o == loc[w].order IN
       \E r \in ProviderStatuses \cup {"error"} :
         /\ retryCalls' = Append(retryCalls,
                              [order |-> o, verified |-> loc[w].verified,
                               ref |-> RefID("RETRY", now, "")])
         /\ provResult' = Put(provResult, o, r)
         /\ orders' =
              CASE r = "Sukses" ->
                     [orders EXCEPT ![o] =
                         UpdateDigiflazzResponse(@, OrderStatusSuccess, r,
                                                 "ABC123", ProviderMessage(r))]
                [] r = "Pending" ->
                     [orders EXCEPT ![o] =
                         UpdateDigiflazzResponse(@, OrderStatusProcessing, r,
                                                 "", ProviderMessage(r))]
                [] OTHER -> orders
         /\ auditLogs' = Append(auditLogs,
                             AuditRow("manual_topup", o,
                                      r \in {"Sukses", "Pending"},
                                      CASE r = "error" -> TransportError
                                        [] r = "Gagal" -> ProviderMessage(r)
                                        [] OTHER       -> ""))
    /\ pc' = [pc EXCEPT ![w] = "idle"]
    /\ loc' = [loc EXCEPT ![w] = IdleLoc]
    /\ UNCHANGED <<payments, balance, deposits, rowLock, webhookLogs, tasks,
                   nextRef, nreq, histVars, txResult, now, refRejects,
                   totpEnabled, opsHist, limiterVars>>

(* an hour goes by without a request                                       *)
HourPasses ==
    /\ now < MaxHours * HourMs
    /\ now' = now + HourMs
    /\ UNCHANGED <<dbVars, pc, loc, tasks, nextRef, nreq, histVars,
                   ledgerHist, refRejects, adminVars, opsHist, limiterVars>>

----------------------------------------------------------------------------
(* Expiry sweep: OrderRepository.CleanupExpiredPendingOrders and           *)
(* PaymentRepository.MarkExpiredPayments, one UPDATE statement each        *)

StillPending_anystatus(status) == TRUE
StillPending(status) == status = "pending"

(* UPDATE orders SET status = 'cancelled'                                  *)
(* WHERE status = 'pending' AND created_at < NOW() - maxAge                *)
CleanupExpiredPendingOrders(aged) ==
    /\ aged # {}
    /\ orders' = [o \in DOMAIN orders |->
                     IF o \in aged /\ StillPending(orders[o].status)
                       THEN [orders[o] EXCEPT !.status = OrderStatusCancelled]
                       ELSE orders[o]]
    /\ sweepSeen' = sweepSeen \cup
                       {<<"order", o, orders[o].status>> : o \in aged}
    /\ UNCHANGED <<payments, balance, deposits, rowLock, webhookLogs, pc, loc,
                   tasks, nextRef, nreq, histVars, ledgerHist, now, refRejects,
                   adminVars, unlogged, rejected, limiterVars>>

(* UPDATE payments SET status = 'expired'                                  *)
(* WHERE status = 'pending' AND expired_at < NOW()                         *)
MarkExpiredPayments(overdue) ==
    /\ overdue # {}
    /\ payments' = [i \in 1..Len(payments) |->
                       IF i \in overdue /\ StillPending(payments[i].status)
                         THEN [payments[i] EXCEPT !.status = PaymentStatusExpired]
                         ELSE payments[i]]
    /\ sweepSeen' = sweepSeen \cup
                       {<<"payment", i, payments[i].status>> : i \in overdue}
    /\ UNCHANGED <<orders, balance, deposits, rowLock, webhookLogs, pc, loc,
                   tasks, nextRef, nreq, histVars, ledgerHist, now, refRejects,
                   adminVars, unlogged, rejected, limiterVars>>

----------------------------------------------------------------------------
Init ==
    /\ orders = <<>>
    /\ payments = <<>>
    /\ balance = [u \in Users |-> 0]
    /\ deposits = <<>>
    /\ rowLock = [u \in Users |-> "none"]
    /\ webhookLogs = <<>>
    /\ pc = [w \in Workers |-> "idle"]
    /\ loc = [w \in Workers |-> IdleLoc]
    /\ tasks = EmptyBag
    /\ nextRef = 1
    /\ nreq = 0
    /\ spawned = <<>>
    /\ dfCalls = <<>>
    /\ paidToProc = <<>>
    /\ overlap = {}
    /\ beaten = [w \in Workers |-> FALSE]
    /\ lastDelivery = NoDelivery
    /\ txResult = [w \in Workers |-> "none"]
    /\ provResult = <<>>
    /\ now = 0
    /\ refRejects = {}
    /\ auditLogs = <<>>
    /\ totpEnabled = FALSE
    /\ retryCalls = <<>>
    /\ sweepSeen = {}
    /\ unlogged = {}
    /\ rejected = {}
    /\ visitors = [ip \in IPs |-> 0]
    /\ vheap = <<>>
    /\ granted = [ip \in IPs |-> 0]

NextLedger ==
    \/ \E w \in Workers : BeginForUpdate(w)
    \/ \E w \in Workers : RollbackInsufficient(w)
    \/ \E w \in Workers : RollbackOnError(w)
    \/ \E w \in Workers : CommitTx(w)
    \/ \E w \in Workers, u \in Users, a \in TopupAmounts : TopupMember(w, u, a)
    \/ \E w \in Workers, u \in Users, p \in MemberPrices :
          MemberCreateOrder(w, u, p, now + 1, "A")
    \/ \E w \in Workers : MemberOrderInsert(w)
    \/ \E w \in Workers : MemberOrderCall(w)
    \/ \E w \in Workers, u \in Users, f \in ValidationFees :
          ValidateMemberAccount(w, u, f, now + 1, "A")
    \/ \E w \in Workers : MemberValidateInsert(w)
    \/ \E w \in Workers : MemberValidateCall(w)
    \/ \E o \in DOMAIN orders, st \in ProviderStatuses, a \in BOOLEAN :
          HandleDigiflazzWebhook(o, st, a, "ok", MaxLedgerRequests)

SpecLedger == Init /\ [][NextLedger]_vars

(* every path that inserts an order, the requests handled one at a time    *)
SequentialWorkers == {"w1"}

NextOrders ==
    \/ \E w \in SequentialWorkers : BeginForUpdate(w)
    \/ \E w \in SequentialWorkers : RollbackInsufficient(w)
    \/ \E w \in SequentialWorkers : RollbackOnError(w)
    \/ \E w \in SequentialWorkers : CommitTx(w)
    \/ \E w \in SequentialWorkers, u \in Users, a \in TopupAmounts : TopupMember(w, u, a)
    \/ \E w \in SequentialWorkers, u \in Users, p \in MemberPrices :
          MemberCreateOrder(w, u, p, now + 1, "A")
    \/ \E w \in SequentialWorkers : MemberOrderInsert(w)
    \/ \E w \in SequentialWorkers : MemberOrderCall(w)
    \/ \E w \in SequentialWorkers, u \in Users, f \in ValidationFees :
          ValidateMemberAccount(w, u, f, now + 1, "A")
    \/ \E w \in SequentialWorkers : MemberValidateInsert(w)
    \/ \E w \in SequentialWorkers : MemberValidateCall(w)
    \/ \E b \in ProductPrices : CreateOrder(b, now + 1, "A")
    \/ \E w \in SequentialWorkers, p \in CustomTopupPrices :
          CustomTopup(w, p, now + 1)
    \/ \E w \in SequentialWorkers : CustomTopupCall(w)
    \/ \E r \in ProviderStatuses \cup {"error"} : ValidateAccount(r, now + 1)

SpecOrders == Init /\ [][NextOrders]_vars

(* every path that inserts an order, with the clock readings and random    *)
(* suffixes that can repeat                                                *)
NextRefs ==
    \/ \E w \in SequentialWorkers : BeginForUpdate(w)
    \/ \E w \in SequentialWorkers : RollbackInsufficient(w)
    \/ \E w \in SequentialWorkers : CommitTx(w)
    \/ \E w \in SequentialWorkers, u \in Users : TopupMember(w, u, 2000000)
    \/ \E w \in SequentialWorkers, u \in Users, t \in ClockReads,
          rnd \in RandomStrings : MemberCreateOrder(w, u, 1500000, t, rnd)
    \/ \E w \in SequentialWorkers : MemberOrderInsert(w)
    \/ \E w \in SequentialWorkers : MemberOrderCall(w)
    \/ \E t \in ClockReads, rnd \in RandomStrings : CreateOrder(999000, t, rnd)
    \/ \E w \in SequentialWorkers, t \in ClockReads : CustomTopup(w, 999000, t)
    \/ \E w \in SequentialWorkers : CustomTopupCall(w)
    \/ \E t \in ClockReads : ValidateAccount("Sukses", t)
    \/ \E o \in DOMAIN orders :
          HandleDigiflazzWebhook(o, "Sukses", TRUE, "ok", MaxLedgerRequests)

SpecRefs == Init /\ [][NextRefs]_vars

(* Two orders whose fulfillment failed after their payment was completed,  *)
(* as the storefront flow leaves them, and nineteen manual retries audited *)
(* as successful at time 0.                                                *)
FailedPaidOrder(n) ==
    UpdateDigiflazzResponse(
        NewOrder(RefID("GVS", 0, n), 1000000, OrderStatusFailed, "none",
                 "website"),
        OrderStatusFailed, "", "", TransportError)

SeededRetries == 19

InitAdmin ==
    /\ orders = [n \in 1..2 |-> FailedPaidOrder(n)]
    /\ payments = [n \in 1..2 |->
                      [orderId |-> n, method |-> "qris", amount |-> 1000000,
                       status |-> PaymentStatusCompleted]]
    /\ balance = [u \in Users |-> 0]
    /\ deposits = <<>>
    /\ rowLock = [u \in Users |-> "none"]
    /\ webhookLogs = <<>>
    /\ pc = [w \in Workers |-> "idle"]
    /\ loc = [w \in Workers |-> IdleLoc]
    /\ tasks = EmptyBag
    /\ nextRef = 3
    /\ nreq = 0
    /\ spawned = <<>>
    /\ dfCalls = <<>>
    /\ paidToProc = <<>>
    /\ overlap = {}
    /\ beaten = [w \in Workers |-> FALSE]
    /\ lastDelivery = NoDelivery
    /\ txResult = [w \in Workers |-> "none"]
    /\ provResult = <<>>
    /\ now = 0
    /\ refRejects = {}
    /\ auditLogs = [n \in 1..SeededRetries |->
                       [action |-> "manual_topup", order |-> 1,
                        success |-> TRUE, reason |-> "", at |-> 0]]
    /\ totpEnabled = FALSE
    /\ retryCalls = <<>>
    /\ sweepSeen = {}
    /\ unlogged = {}
    /\ rejected = {}
    /\ visitors = [ip \in IPs |-> 0]
    /\ vheap = <<>>
    /\ granted = [ip \in IPs |-> 0]

----------------------------------------------------------------------------
(* middleware.RateLimiter: per-IP request budget kept in memory            *)

(* &visitor{tokens: rl.limit, lastReset: time.Now()}                       *)
NewVisitor(t) == [tokens |-> rlLimit, lastReset |-> t]

(* time.Since(v.lastReset) > rl.window                                     *)
WindowPassed(v, t) == t - v.lastReset > WindowMs

(* v.lastReset.Before(time.Now().Add(-2 * rl.window))                      *)
Stale(v, t) == v.lastReset < t - 2 * WindowMs

(* getVisitor, all of it under rl.mu: looks the visitor up, creates it or  *)
(* refills it when its window has passed, and returns the pointer          *)
getVisitor(w, ip) ==
    /\ pc[w] = "idle"
    /\ nreq < MaxRequests
    /\ nreq' = nreq + 1
    /\ IF visitors[ip] = 0
         THEN /\ vheap' = Append(vheap, NewVisitor(now))
              /\ visitors' = [visitors EXCEPT ![ip] = Len(vheap) + 1]
              /\ granted' = [granted EXCEPT ![ip] = 0]
         ELSE /\ UNCHANGED visitors
              /\ IF WindowPassed(vheap[visitors[ip]], now)
                   THEN /\ vheap' = [vheap EXCEPT ![visitors[ip]] =
                                       NewVisitor(now)]
                        /\ granted' = [granted EXCEPT ![ip] = 0]
                   ELSE UNCHANGED <<vheap, granted>>
    /\ pc' = [pc EXCEPT ![w] = "rl_allow"]
    /\ loc' = [loc EXCEPT ![w] =
                 [IdleLoc EXCEPT !.ip = ip, !.visitor = visitors'[ip]]]
    /\ UNCHANGED <<dbVars, tasks, nextRef, histVars, ledgerHist, now,
                   refRejects, adminVars, opsHist>>

(* the rest of allow: rl.mu taken again, the token of the visitor object   *)
(* returned by getVisitor is spent if one is left                          *)
allow(w) ==
    /\ pc[w] = "rl_allow"
    /\ LET v == loc[w].visitor IN
         IF vheap[v].tokens > 0
           THEN /\ vheap' = [vheap EXCEPT ![v].tokens = @ - 1]
                /\ granted' = [granted EXCEPT ![loc[w].ip] = @ + 1]
           ELSE UNCHANGED <<vheap, granted>>
    /\ pc' = [pc EXCEPT ![w] = "idle"]
    /\ loc' = [loc EXCEPT ![w] = IdleLoc]
    /\ UNCHANGED <<dbVars, tasks, nextRef, nreq, histVars, ledgerHist, now,
                   refRejects, adminVars, opsHist, visitors>>

(* one tick of cleanup: every stale visitor is deleted from the map; an    *)
(* object some allow call still points to lives on                         *)
cleanup ==
    /\ visitors' = [ip \in IPs |->
                       IF visitors[ip] # 0 /\ Stale(vheap[visitors[ip]], now)
                         THEN 0 ELSE visitors[ip]]
    /\ UNCHANGED <<dbVars, pc, loc, tasks, nextRef, nreq, histVars,
                   ledgerHist, now, refRejects, adminVars, opsHist, vheap,
                   granted>>

(* a window's length of time goes by                                       *)
MinutePasses ==
    /\ now < MaxMinutes * WindowMs
    /\ now' = now + WindowMs
    /\ UNCHANGED <<dbVars, pc, loc, tasks, nextRef, nreq, histVars,
                   ledgerHist, refRejects, adminVars, opsHist, limiterVars>>

NextLimiter ==
    \/ \E w \in Workers, ip \in IPs : getVisitor(w, ip)
    \/ \E w \in Workers : allow(w)
    \/ cleanup
    \/ MinutePasses

SpecLimiter == Init /\ [][NextLimiter]_vars

(* the payment flow with the expiry sweep running beside it                *)
AcceptedPayloads == {d \in PakasirPayloads : PakasirVerdict(d) = "accepted"}

NextSweep ==
    \/ CreateOrder(999000, now + 1, "A")
    \/ \E w \in Workers, o \in DOMAIN orders : InitiatePayment(w, o, "qris")
    \/ \E w \in Workers : InitiatePaymentWrite(w)
    \/ \E w \in Workers, d \in AcceptedPayloads : HandlePakasirWebhook(w, d, TRUE)
    \/ \E w \in Workers : PakasirUpdatePayment(w)
    \/ \E w \in Workers : PakasirMarkPaid(w, TRUE)
    \/ \E aged \in SUBSET DOMAIN orders : CleanupExpiredPendingOrders(aged)
    \/ \E overdue \in SUBSET (1..Len(payments)) : MarkExpiredPayments(overdue)

SpecSweep == Init /\ [][NextSweep]_vars

(* the sweep taken as a job that keeps running over every row old enough,  *)
(* and request handlers that run to their end once started                 *)
SweepFairness ==
    /\ WF_vars(CleanupExpiredPendingOrders(DOMAIN orders))
    /\ WF_vars(MarkExpiredPayments(1..Len(payments)))
    /\ \A w \in Workers :
          /\ WF_vars(InitiatePaymentWrite(w))
          /\ WF_vars(PakasirUpdatePayment(w))
          /\ WF_vars(PakasirMarkPaid(w, TRUE))

SpecSweepFair == Init /\ [][NextSweep]_vars /\ SweepFairness

(* both webhook endpoints with the bodies and database outcomes a request  *)
(* can meet                                                                *)
NextWebhooks ==
    \/ CreateOrder(999000, now + 1, "A")
    \/ \E w \in Workers, o \in DOMAIN orders : InitiatePayment(w, o, "qris")
    \/ \E w \in Workers : InitiatePaymentWrite(w)
    \/ \E w \in Workers, d \in PakasirPayloads \cup MalformedPayloads,
          logged \in BOOLEAN : HandlePakasirWebhook(w, d, logged)
    \/ \E w \in Workers : PakasirUpdatePayment(w)
    \/ \E w \in Workers, ok \in BOOLEAN : PakasirMarkPaid(w, ok)
    \/ \E o \in DOMAIN orders \cup {0}, st \in {"Sukses", Malformed},
          db \in DbOutcomes :
          HandleDigiflazzWebhook(o, st, TRUE, db, MaxRequests)

SpecWebhooks == Init /\ [][NextWebhooks]_vars

NextAdmin ==
    \/ \E code \in TOTPCodes : EnableTOTP(code)
    \/ \E code \in TOTPCodes : DisableTOTP(code)
    \/ \E w \in Workers, o \in DOMAIN orders \cup {0}, code \in TOTPCodes :
          ManualTopup(w, o, code)
    \/ \E w \in Workers : ManualTopupCall(w)
    \/ HourPasses

SpecAdmin == InitAdmin /\ [][NextAdmin]_vars

Next ==
    \/ \E b \in ProductPrices : CreateOrder(b, now + 1, "A")
    \/ \E w \in Workers, o \in DOMAIN orders, m \in PaymentMethods :
          InitiatePayment(w, o, m)
    \/ \E w \in Workers : InitiatePaymentWrite(w)
    \/ \E w \in Workers, o \in DOMAIN orders : CancelOrder(w, o)
    \/ \E w \in Workers : CancelOrderWrite(w)
    \/ \E w \in Workers, o \in DOMAIN orders : GetOrderStatus(w, o)
    \/ \E w \in Workers : GetOrderStatusPaid(w)
    \/ \E w \in Workers : GetOrderStatusExpired(w)
    \/ \E w \in Workers, o \in DOMAIN orders : CheckOrderStatus(w, o)
    \/ \E w \in Workers : CheckOrderStatusExpire(w)
    \/ \E w \in Workers, d \in PakasirPayloads : HandlePakasirWebhook(w, d, TRUE)
    \/ \E w \in Workers : PakasirUpdatePayment(w)
    \/ \E w \in Workers : PakasirMarkPaid(w, TRUE)
    \/ \E t \in BagToSet(tasks) : ProcessTopupStart(t)
    \/ \E t \in BagToSet(tasks) : ProcessTopupCall(t)
    \/ \E o \in DOMAIN orders, st \in ProviderStatuses, a \in BOOLEAN :
          HandleDigiflazzWebhook(o, st, a, "ok", MaxRequests)

Spec == Init /\ [][Next]_vars

----------------------------------------------------------------------------
(* Properties                                                              *)

InFlight(o) == \E w \in Workers : pc[w] # "idle" /\ loc[w].order = o

RefundRows(o) ==
    {i \in 1..Len(deposits) :
        /\ deposits[i].type # "debit"
        /\ deposits[i].description = o
        /\ deposits[i].user = orders[o].memberId}

\* C1: once an order's status is success, failed, cancelled, expired or
\* refunded, no later step (webhook, provider callback, polling, cancel,
\* admin check-status, background topup task) changes it.
C1_TerminalStatusNeverChanges ==
    [][\A o \in DOMAIN orders :
          orders[o].status \in TerminalStatuses
          => orders'[o].status = orders[o].status]_vars

\* C2: "payment completed" deliveries for one order that are handled one
\* after the other cause at most one provider call and at most one
\* paid -> processing transition for that order.
C2_SequentialRedeliveryIdempotent ==
    \A o \in DOMAIN orders :
        o \notin overlap
        => /\ Count(dfCalls, o) <= 1
           /\ Count(paidToProc, o) <= 1

\* C3: of two concurrently handled "completed" deliveries that both read
\* the order in waiting_payment, the one that writes second starts no
\* fulfillment.
C3_ConcurrentDeliveriesOneWinner ==
    [][\A w \in Workers :
          (pc[w] = "pk_order" /\ pc'[w] = "idle" /\ beaten[w])
          => Count(spawned', loc[w].order) = Count(spawned, loc[w].order)]_vars

\* C4: every order in paid, whether set by a webhook delivery or by status
\* polling, has had the topup task started for it.
C4_PaidOrderHasTopupStarted ==
    \A o \in DOMAIN orders :
        orders[o].status = OrderStatusPaid => Count(spawned, o) > 0

\* C5: a member-funded order whose fulfillment ended in failed (provider
\* result or transport error) has had exactly one refund of exactly the
\* debited amount credited to the member that paid for it.
C5_FailedMemberOrderRefunded ==
    \A o \in DOMAIN orders :
        (orders[o].memberId # "none" /\ orders[o].status = OrderStatusFailed
            /\ ~InFlight(o))
        => /\ Cardinality(RefundRows(o)) = 1
           /\ \A i \in RefundRows(o) : deposits[i].amount = orders[o].memberPrice

\* C6: the balance of every account equals the sum of the signed amounts
\* (credit and refund positive, debit negative) of its ledger rows.
C6_BalanceEqualsLedgerSum ==
    \A u \in Users : balance[u] = LedgerSum(deposits, u)

C6_Witness ==
    /\ \E i \in 1..Len(deposits) : deposits[i].type = "debit"
    /\ \E i \in 1..Len(deposits) : deposits[i].createdBy = "SYSTEM"
    /\ \E u \in Users : balance[u] > 0

\* C7: no account balance is ever negative.
C7_BalanceNeverNegative ==
    \A u \in Users : balance[u] >= 0

C7_Witness ==
    \E w \in Workers :
        /\ pc[w] = "tx_locked"
        /\ loc[w].kind = "debit"
        /\ loc[w].cur < loc[w].amount
        /\ \E i \in 1..Len(deposits) : deposits[i].type = "debit"

\* C8: a balance transaction holds the row lock of its account alone, and
\* the balance it read is still the committed balance when it writes, so
\* no update is lost and a second debit sees the first one's result.
C8_RowLockSerializes ==
    \A w \in Workers :
        pc[w] = "tx_locked"
        => /\ rowLock[loc[w].user] = w
           /\ loc[w].cur = balance[loc[w].user]
           /\ \A v \in Workers \ {w} :
                 ~(pc[v] = "tx_locked" /\ loc[v].user = loc[w].user)

C8_Witness ==
    \E w, v \in Workers :
        /\ w # v
        /\ pc[w] = "tx_locked" /\ pc[v] = "tx_begin"
        /\ loc[w].user = loc[v].user
        /\ loc[w].kind = "debit" /\ loc[v].kind = "debit"
        /\ loc[w].amount <= balance[loc[w].user]
        /\ loc[w].amount + loc[v].amount > balance[loc[w].user]

PakasirReceived ==
    /\ Len(webhookLogs') = Len(webhookLogs) + 1
    /\ webhookLogs'[Len(webhookLogs')].source = "pakasir"

CompletedFor(d) ==
    /\ d.project = "ok"
    /\ d.status = "completed"
    /\ d.order \in DOMAIN orders

\* C9 as stated: a completed delivery whose amount differs from the order's
\* selling price is rejected with "amount mismatch" and changes no order, no
\* payment and starts no fulfillment.
C9_AmountDiffersFromPriceRejected ==
    [][(PakasirReceived /\ CompletedFor(lastDelivery')
          /\ lastDelivery'.amount # orders[lastDelivery'.order].sellingPrice)
       => /\ lastDelivery'.verdict = "amount mismatch"
          /\ UNCHANGED <<orders, payments, tasks, spawned, pc>>]_vars

\* C9 amended: a completed delivery whose amount differs from the order's
\* selling price rounded half up to a whole unit is rejected with "amount
\* mismatch" and changes no order, no payment and starts no fulfillment.
C9_AmountDiffersFromRoundedPriceRejected ==
    [][(PakasirReceived /\ CompletedFor(lastDelivery')
          /\ lastDelivery'.amount #
               ExpectedAmount(orders[lastDelivery'.order].sellingPrice))
       => /\ lastDelivery'.verdict = "amount mismatch"
          /\ UNCHANGED <<orders, payments, tasks, spawned, pc>>]_vars

C9_Witness ==
    /\ lastDelivery.verdict = "amount mismatch"
    /\ lastDelivery.amount = 999900
    /\ lastDelivery.order \in DOMAIN orders
    /\ orders[lastDelivery.order].sellingPrice = 1000000
    /\ orders[lastDelivery.order].status = OrderStatusWaitingPayment
    /\ Count(spawned, lastDelivery.order) = 0

\* C10: the write that ends a "completed" delivery changes the order's
\* status and starts fulfillment only if the order is in waiting_payment
\* at that moment.
C10_PaidOnlyFromWaitingPayment ==
    [][\A w \in Workers :
          (/\ pc[w] = "pk_order" /\ pc'[w] = "idle"
           /\ orders[loc[w].order].status # OrderStatusWaitingPayment)
          => /\ orders'[loc[w].order].status = orders[loc[w].order].status
             /\ spawned' = spawned]_vars

CallbackReceived ==
    Len(webhookLogs') = Len(webhookLogs) + 1

\* C11: a callback on either webhook endpoint that fails the authenticity
\* check (signature or merchant identity) changes no order, no payment and
\* no balance or ledger row.
C11_UnauthenticCallbackChangesNothing ==
    [][(CallbackReceived /\ ~webhookLogs'[Len(webhookLogs')].authentic)
       => UNCHANGED <<orders, payments, balance, deposits>>]_vars

\* C12: every step that changes a balance appends exactly one ledger row
\* for that account carrying exactly that change, every step that appends
\* a ledger row changes that balance, and a transaction that fails after
\* taking the row lock leaves both untouched.
C12_BalanceAndLedgerCommitTogether ==
    [][/\ \A u \in Users :
            balance'[u] # balance[u]
            => /\ deposits' # <<>>
               /\ deposits = SubSeq(deposits', 1, Len(deposits') - 1)
               /\ deposits'[Len(deposits')].user = u
               /\ SignedAmount(deposits'[Len(deposits')]) =
                      balance'[u] - balance[u]
       /\ deposits' # deposits => \E u \in Users : balance'[u] # balance[u]
       /\ \A w \in Workers :
            (pc[w] = "tx_locked" /\ txResult'[w] \in {"error",
                                                      "insufficient balance"}
                /\ pc'[w] # "tx_locked")
            => UNCHANGED <<balance, deposits>>]_vars

C12_Witness ==
    \E w \in Workers :
        /\ txResult[w] = "error"
        /\ deposits # <<>>
        /\ \E u \in Users : balance[u] > 0

DebitEnds(w) ==
    /\ pc[w] = "tx_locked"
    /\ loc[w].kind = "debit"
    /\ pc'[w] # "tx_locked"

\* C13: a debit ends with "insufficient balance" exactly when the balance
\* is smaller than the amount, and then balance and ledger are unchanged;
\* with a balance of at least the amount, and no statement of the
\* transaction failing, it lowers the balance by the amount and appends
\* one debit row of that amount.
C13_DebitInsufficientIffBalanceBelowAmount ==
    [][\A w \in Workers :
          DebitEnds(w)
          => LET u == loc[w].user
                 a == loc[w].amount
             IN  /\ (txResult'[w] = "insufficient balance") <=> (balance[u] < a)
                 /\ balance[u] < a => UNCHANGED <<balance, deposits>>
                 /\ (balance[u] >= a /\ txResult'[w] # "error")
                    => /\ txResult'[w] = "ok"
                       /\ balance'[u] = balance[u] - a
                       /\ Len(deposits') = Len(deposits) + 1
                       /\ deposits = SubSeq(deposits', 1, Len(deposits))
                       /\ deposits'[Len(deposits')].type = "debit"
                       /\ deposits'[Len(deposits')].amount = a
                       /\ deposits'[Len(deposits')].user = u]_vars

C13_Witness ==
    \E w, v \in Workers, u \in Users :
        /\ txResult[w] = "insufficient balance"
        /\ txResult[v] = "ok"
        /\ balance[u] = 0
        /\ \E i \in 1..Len(deposits) :
              deposits[i].type = "debit" /\ deposits[i].amount = 2000000

\* C14: a member purchase whose handling is over has the status the
\* provider's last result calls for: success with the serial stored for
\* "Sukses", failed with the price refunded for "Gagal", processing for
\* "Pending".
C14_MemberOrderFollowsProviderResult ==
    \A o \in DOMAIN orders :
        (orders[o].memberId # "none" /\ o \in DOMAIN provResult /\ ~InFlight(o))
        => /\ provResult[o] = "Sukses"
              => /\ orders[o].status = OrderStatusSuccess
                 /\ orders[o].serialNumber = "ABC123"
           /\ provResult[o] = "Gagal"
              => /\ orders[o].status = OrderStatusFailed
                 /\ RefundRows(o) # {}
           /\ provResult[o] = "Pending"
              => orders[o].status = OrderStatusProcessing

\* C15: the write of a cancel request never sets to cancelled an order
\* that is in status paid at the moment of the write, also when a
\* "completed" webhook for the order was handled between the cancel
\* request's read and its write.
C15_PaidOrderNeverCancelled ==
    [][\A w \in Workers :
          (/\ pc[w] = "co_write" /\ pc'[w] = "idle"
           /\ orders[loc[w].order].status = OrderStatusPaid)
          => orders'[loc[w].order].status # OrderStatusCancelled]_vars

\* C16: a payment whose status is completed, expired or cancelled keeps
\* that status in every later step.
C16_FinalPaymentStatusNeverChanges ==
    [][\A i \in 1..Len(payments) :
          payments[i].status \in {PaymentStatusCompleted, PaymentStatusExpired,
                                  PaymentStatusCancelled}
          => payments'[i].status = payments[i].status]_vars

\* C17: every order has at most one payment in status pending.
C17_AtMostOnePendingPayment ==
    \A o \in DOMAIN orders :
        Cardinality({i \in PaymentsOf(o) :
                        payments[i].status = PaymentStatusPending}) <= 1

\* C18: every Pakasir delivery whose receipt was logged is answered with
\* 200 OK, whatever its outcome (invalid project, unknown order, amount
\* mismatch, ignored or accepted).
C18_LoggedDeliveryAnswered200 ==
    lastDelivery.verdict # "none" => lastDelivery.http = 200

(* The requests accepted so far are a prefix of Scenario A for a SKU priced *)
(* base: create the order, initiate a QR payment, deliver one "completed"  *)
(* webhook of amount 10000 to the order in waiting_payment; the provider,  *)
(* if it has answered, answered "Sukses".                                  *)
InScenarioA(base) ==
    /\ nreq <= 3
    /\ nreq >= 1 => /\ DOMAIN orders = {1}
                    /\ orders[1].sellingPrice = base + FlatAdminFee * Cents
    /\ nreq >= 2 => \/ \E w \in Workers :
                          /\ pc[w] = "ip_write"
                          /\ loc[w].method = "qris"
                          /\ payments = <<>>
                    \/ /\ Len(payments) = 1
                       /\ payments[1].method = "qris"
    /\ nreq = 3 => /\ Len(payments) = 1
                   /\ lastDelivery.order = 1
                   /\ lastDelivery.amount = 1000000
                   /\ lastDelivery.status = "completed"
                   /\ lastDelivery.project = "ok"
                   /\ lastDelivery.ost = OrderStatusWaitingPayment
    /\ 1 \in DOMAIN provResult => provResult[1] = "Sukses"

ScenarioASteps ==
    {<<OrderStatusPending, OrderStatusWaitingPayment>>,
     <<OrderStatusWaitingPayment, OrderStatusPaid>>,
     <<OrderStatusPaid, OrderStatusProcessing>>,
     <<OrderStatusProcessing, OrderStatusSuccess>>}

ScenarioA(base) ==
    (InScenarioA(base) /\ InScenarioA(base)')
    => /\ (orders = <<>> /\ orders' # <<>>)
          => orders'[1].status = OrderStatusPending
       /\ (orders # <<>> /\ orders'[1].status # orders[1].status)
          => <<orders[1].status, orders'[1].status>> \in ScenarioASteps
       /\ (nreq' = 3 /\ \A w \in Workers : pc'[w] = "idle")
          => orders'[1].status \in {OrderStatusPaid, OrderStatusProcessing,
                                    OrderStatusSuccess}
       /\ 1 \in DOMAIN provResult'
          => /\ orders'[1].status = OrderStatusSuccess
             /\ orders'[1].serialNumber = "ABC123"

\* C19 as stated: Scenario A for a SKU priced 10000 and a webhook of amount
\* 10000: the order's status goes pending, waiting_payment, paid,
\* processing, and on the provider's success ends in success with the
\* serial stored.
C19_ScenarioA_SkuPriced10000 ==
    [][ScenarioA(1000000)]_vars

\* C19 amended: Scenario A for an order whose frozen selling price is
\* 10000 (SKU priced 9990 plus the flat fee) and a webhook of amount 10000:
\* the order's status goes pending, waiting_payment, paid, processing, and
\* on the provider's success ends in success with the serial stored.
C19_ScenarioA_OrderPriced10000 ==
    [][ScenarioA(999000)]_vars

C19_Witness ==
    /\ InScenarioA(999000)
    /\ nreq = 3
    /\ 1 \in DOMAIN provResult
    /\ orders[1].status = OrderStatusSuccess
    /\ orders[1].serialNumber = "ABC123"
    /\ Count(paidToProc, 1) = 1

InsertedOrders == DOMAIN orders' \ DOMAIN orders

C21_RefIdUniqueAndImmutable ==
    [][/\ \A o \in DOMAIN orders :
            o \in DOMAIN orders' /\ orders'[o].refId = orders[o].refId
       /\ \A o1, o2 \in DOMAIN orders' :
            o1 # o2 => orders'[o1].refId # orders'[o2].refId
       /\ \A ref \in refRejects' \ refRejects :
            RefTaken(ref) /\ orders' = orders]_vars

C21_Witness ==
    /\ \E ref \in refRejects : ref[1] = "ADMIN"
    /\ \E ref \in refRejects : ref[1] = "VAL"
    /\ Cardinality(DOMAIN orders) >= 2
    /\ \E o \in DOMAIN orders :
          orders[o].refId[1] = "ADMIN" /\ orders[o].status = OrderStatusSuccess

\* C22: every provider call of a manual topup belongs to a request whose
\* TOTP code was verified; a request without a verified code calls the
\* provider not at all and changes no order.
C22_ManualTopupOnlyAfterVerifiedTOTP ==
    \A i \in 1..Len(retryCalls) : retryCalls[i].verified

SuccessfulRetries ==
    {i \in 1..Len(auditLogs) :
        auditLogs[i].action = "manual_topup" /\ auditLogs[i].success}

\* C23: in every one-hour window, at most maxTopupsPerHour (20) manual
\* retries are audited as successful, also when manual topup requests are
\* handled concurrently.
C23_AtMostCeilingRetriesPerHour ==
    \A i \in SuccessfulRetries :
        Cardinality({j \in SuccessfulRetries :
                        /\ auditLogs[j].at > auditLogs[i].at - HourMs
                        /\ auditLogs[j].at <= auditLogs[i].at})
            <= maxTopupsPerHour

(* the provider call made for order o in this step failed in transport     *)
CallFailed(o) ==
    /\ o \in DOMAIN provResult'
    /\ provResult'[o] = "error"
    /\ o \notin DOMAIN provResult \/ provResult[o] # "error"

\* C24: when the provider call made for an order fails at transport or
\* protocol level, the order becomes failed and the transport error text
\* is stored as its message, on every path that calls the provider.
C24_TransportErrorStoredOnFailedOrder ==
    [][\A o \in DOMAIN orders :
          CallFailed(o)
          => /\ orders'[o].status = OrderStatusFailed
             /\ orders'[o].digiflazzMsg = TransportError]_vars

\* C25: a member-funded order for which a refund has been credited is
\* never in status success, also when a provider callback reporting
\* success for its ref_id arrives after the refund.
C25_RefundedOrderNeverSuccess ==
    \A o \in DOMAIN orders :
        (orders[o].memberId # "none" /\ RefundRows(o) # {})
        => orders[o].status # OrderStatusSuccess

SweepStep ==
    \/ \E aged \in SUBSET DOMAIN orders : CleanupExpiredPendingOrders(aged)
    \/ \E overdue \in SUBSET (1..Len(payments)) : MarkExpiredPayments(overdue)

\* C26: a step of the expiry sweep changes an order only from pending to
\* cancelled and a payment only from pending to expired, the status being
\* tested in the very statement that writes; an order that a webhook has
\* moved to paid, or a payment it has completed, is left as it is.
C26_SweepWritesOnlyStillPendingRows ==
    [][SweepStep
       => /\ \A o \in DOMAIN orders :
               orders'[o] # orders[o]
               => /\ orders[o].status = OrderStatusPending
                  /\ orders'[o] =
                        [orders[o] EXCEPT !.status = OrderStatusCancelled]
          /\ \A i \in 1..Len(payments) :
               payments'[i] # payments[i]
               => /\ payments[i].status = PaymentStatusPending
                  /\ payments'[i] =
                        [payments[i] EXCEPT !.status = PaymentStatusExpired]]_vars

C26_Witness ==
    \E o \in DOMAIN orders :
        /\ <<"order", o, OrderStatusWaitingPayment>> \in sweepSeen
        /\ <<"order", o, OrderStatusPaid>> \in sweepSeen
        /\ orders[o].status = OrderStatusPaid
        /\ <<"payment", GetByOrderID(o), PaymentStatusCompleted>> \in sweepSeen
        /\ payments[GetByOrderID(o)].status = PaymentStatusCompleted

\* C27: the admin check-status operation never sets to expired an order
\* that it read in paid or processing and that is still in that status
\* when it writes, also when the payment's expiry time has passed.
C27_CheckStatusExpiresOnlyUnpaid ==
    [][\A w \in Workers :
          (/\ pc[w] = "cs_expire" /\ pc'[w] = "idle"
           /\ loc[w].ost = orders[loc[w].order].status
           /\ loc[w].ost \in {OrderStatusPaid, OrderStatusProcessing})
          => orders'[loc[w].order].status # OrderStatusExpired]_vars

\* C28: no delivery changes a Payment or an Order without a stored webhook
\* receipt: every delivery that wrote had its raw payload inserted first.
C28_NoWriteWithoutReceipt == unlogged = {}

CallPending(o) ==
    /\ o \in DOMAIN provResult'
    /\ provResult'[o] = "Pending"
    /\ o \notin DOMAIN provResult \/ provResult[o] # "Pending"

\* C30: a provider result of pending leaves the order in processing with
\* the intermediate provider message stored, and starts no refund, on every
\* path that receives a provider result.
C30_PendingKeepsProcessingWithMessage ==
    [][\A o \in DOMAIN orders :
          CallPending(o)
          => /\ orders'[o].status = OrderStatusProcessing
             /\ orders'[o].digiflazzMsg = ProviderMessage("Pending")
             /\ deposits' = deposits
             /\ \A w \in Workers : pc'[w] # "tx_begin"]_vars

(* this step is a Pakasir delivery with status expired for a known order   *)
(* that has a payment row                                                  *)
ExpiredDelivery(o) ==
    /\ Len(webhookLogs') = Len(webhookLogs) + 1
    /\ webhookLogs'[Len(webhookLogs')].source = "pakasir"
    /\ lastDelivery'.status = "expired"
    /\ lastDelivery'.project = "ok"
    /\ lastDelivery'.order = o
    /\ GetByOrderID(o) # 0

\* C31: a payment-gateway callback with status expired marks the order's
\* payment as expired and leaves the order's status unchanged.
C31_ExpiredCallbackMarksPaymentExpired ==
    [][\A o \in DOMAIN orders :
          ExpiredDelivery(o)
          => /\ payments'[GetByOrderID(o)].status = PaymentStatusExpired
             /\ orders'[o].status = orders[o].status]_vars

Unpaid(o) ==
    /\ o \in DOMAIN orders
    /\ orders[o].status \in {OrderStatusPending, OrderStatusWaitingPayment}

\* C32: with the sweep running again and again over every row that is old
\* enough, an order in pending or waiting_payment does not stay there for
\* ever: it is eventually cancelled or expired unless a payment moves it on.
C32_SweepCollectsUnpaidOrders ==
    \A o \in 1..MaxOrders : Unpaid(o) ~> ~Unpaid(o)

\* C33: whenever a gateway-funded order is in paid, processing or success,
\* the payment record of that order has status completed.
C33_PaidOrderHasCompletedPayment ==
    \A o \in DOMAIN orders :
        (/\ orders[o].orderSource = "website"
         /\ orders[o].status \in {OrderStatusPaid, OrderStatusProcessing,
                                  OrderStatusSuccess})
        => /\ GetByOrderID(o) # 0
           /\ payments[GetByOrderID(o)].status = PaymentStatusCompleted

(* provider calls made for the order of worker w since w read that order   *)
RetriesSinceRead(w) ==
    {i \in DOMAIN retryCalls :
        i > loc[w].seen /\ retryCalls[i].order = loc[w].order}

\* C34: of the manual topup requests for one failed order that are handled
\* at the same time at most one calls the provider: a request does not call
\* the provider when another request has called it for that order since
\* this request read the order as failed.
C34_ConcurrentRetriesCallOnce ==
    [][\A w \in Workers :
          (pc[w] = "mt_call" /\ pc'[w] = "idle") => RetriesSinceRead(w) = {}]_vars

\* C35: every provider call made for an order by a manual retry carries
\* that order's own ref_id as the provider's idempotency key, as the first
\* attempt does.
C35_ProviderCallCarriesOrderRefId ==
    \A i \in DOMAIN retryCalls :
        retryCalls[i].ref = orders[retryCalls[i].order].refId

(* ledger rows that give back the debit made for order number o            *)
CompensationRows(o, u, amount) ==
    {j \in 1..Len(deposits) :
        /\ deposits[j].type # "debit"
        /\ deposits[j].description = o
        /\ deposits[j].user = u
        /\ deposits[j].amount = amount}

\* C36: when the order insert fails after the member's balance was debited,
\* a credit of the same amount is issued: once the request is over, every
\* debit row whose order does not exist has a compensating row of the same
\* amount for the same account.
C36_FailedInsertIsCompensated ==
    \A i \in 1..Len(deposits) :
        (/\ deposits[i].type = "debit"
         /\ deposits[i].referenceId \notin DOMAIN orders
         /\ ~InFlight(deposits[i].referenceId))
        => CompensationRows(deposits[i].referenceId, deposits[i].user,
                            deposits[i].amount) # {}

\* C37: every refund issued because a member-funded order failed is a
\* ledger row of type refund, not credit, whose reference is the order.
C37_RefundRowsAreTypedRefund ==
    \A o \in DOMAIN orders :
        \A i \in RefundRows(o) :
            /\ deposits[i].type = "refund"
            /\ deposits[i].referenceId = o

\* C38: whenever an order's status is success or failed, its completed_at
\* timestamp is set.
C38_FinishedOrderHasCompletedAt ==
    \A o \in DOMAIN orders :
        orders[o].status \in {OrderStatusSuccess, OrderStatusFailed}
        => orders[o].completedAt

\* C39 as stated: a completed delivery for a known order is accepted exactly
\* when its amount equals the order's selling price truncated to a whole
\* unit.
C39_AcceptedIffAmountIsTruncatedPrice ==
    [][(PakasirReceived /\ CompletedFor(lastDelivery'))
       => (lastDelivery'.verdict = "accepted"
             <=> lastDelivery'.amount =
                   ExpectedAmount_truncated(
                       orders[lastDelivery'.order].sellingPrice))]_vars

\* C39 amended: a completed delivery for a known order is accepted exactly
\* when its amount equals the order's selling price rounded half up to a
\* whole unit, and is refused with "amount mismatch" otherwise; a selling
\* price of 10000.50 is matched by amount 10001 and not by amount 10000.
C39_AcceptedIffAmountIsRoundedPrice ==
    [][(PakasirReceived /\ CompletedFor(lastDelivery'))
       => LET price == orders[lastDelivery'.order].sellingPrice IN
          /\ lastDelivery'.verdict = "accepted"
               <=> lastDelivery'.amount =
                     ((price + Cents \div 2) \div Cents) * Cents
          /\ lastDelivery'.verdict # "accepted"
               => lastDelivery'.verdict = "amount mismatch"
          /\ (price = 1000050 /\ lastDelivery'.amount = 1000100)
               => lastDelivery'.verdict = "accepted"
          /\ (price = 1000050 /\ lastDelivery'.amount = 1000000)
               => lastDelivery'.verdict = "amount mismatch"]_vars

C39_Witness ==
    /\ lastDelivery.verdict = "accepted"
    /\ lastDelivery.amount = 1000100
    /\ lastDelivery.order \in DOMAIN orders
    /\ orders[lastDelivery.order].sellingPrice = 1000050
    /\ orders[lastDelivery.order].status = OrderStatusPaid

\* C40: for each client IP, allow answers true at most rl.limit times
\* between two consecutive resets of that IP's window, whatever the
\* interleaving of allow calls with each other and with cleanup.
C40_AtMostLimitGrantsPerWindow ==
    \A ip \in IPs : granted[ip] <= rlLimit

====
